---- MODULE Spec2Model ----
(***************************************************************************)
(* A model of claude_token_refresh.py: ClaudeTokenRefresher.run and the    *)
(* methods it calls, over a file system of four candidate config paths,    *)
(* their backup siblings, a wall clock and a token endpoint.               *)
(***************************************************************************)
EXTENDS Integers, Sequences, FiniteSets, TLC

VARIABLES
    files,          \* candidate path (1..4) -> what is on disk there
    backups,        \* candidate path (1..4) -> its <path>.json.backup sibling
    now,            \* the wall clock, epoch milliseconds
    force,          \* the --force flag of this invocation
    pc,             \* position of run()
    config_file,    \* self.config_file: 0 is None, else the candidate path
    config_data,    \* self.config_data (the parsed document)
    loaded,         \* self.config_data is not None
    oauth_key,      \* the key whose section get_oauth_config returned ("none" before)
    updated_key,    \* the key update_config resolved and mutated ("none" before)
    expires_at,     \* run(): expires_at
    is_expired,     \* run(): is_expired
    checked_at,     \* the clock value is_token_expired compared against
    sent_token,     \* the refresh token handed to refresh_token()
    response,       \* what requests.post produced, once it was called
    new_token_data, \* run(): new_token_data
    result,         \* what run() returned: "running", "true", "false"
    http_calls,     \* requests.post calls made by this invocation
    writes,         \* open(..., 'w') calls of this invocation, in order
    files0,         \* files when this invocation started
    backups0,       \* backups when this invocation started
    run_no,         \* number of this invocation
    prev            \* summary of the previous invocation

vars == <<files, backups, now, force, pc, config_file, config_data, loaded,
          oauth_key, updated_key, expires_at, is_expired, checked_at,
          sent_token, response, new_token_data, result, http_calls, writes, files0,
          backups0, run_no, prev>>

(***************************************************************************)
(* Bounds of the model.                                                    *)
(***************************************************************************)
T0 == 5000          \* the clock when the first invocation reads it
MaxTick == 1        \* the HTTP call takes 0..MaxTick milliseconds
MaxRuns == 2        \* invocations of the tool in one behaviour

(***************************************************************************)
(* Program constants.                                                      *)
(***************************************************************************)
DefaultExpiresIn == 3600    \* new_token_data.get('expires_in', 3600)
MsPerSecond == 1000         \* the * 1000 of the clock reads
HttpOk == 200               \* response.status_code == 200

(***************************************************************************)
(* JSON values.  NoField is a key that is absent from its object, Null is  *)
(* JSON null / Python None.  An optional integer is <<>> or <<n>>.         *)
(***************************************************************************)
NoField == "<absent>"
Null == "<null>"

\* Python truthiness of a string-or-None value (None and "" are falsy).
Truthy(v) == v \notin {NoField, Null, ""}

oauth_keys == <<"claudeAiOauth", "oauthAccount", "oauth">>
KeySet == {oauth_keys[i] : i \in 1..3}

AbsentSection ==
    [present |-> FALSE, accessToken |-> NoField, refreshToken |-> NoField,
     expiresAt |-> <<>>, organizationUuid |-> NoField]

EmptyDoc == [k \in KeySet |-> AbsentSection]

\* dict.get(key) on a section: None when the key is absent.
Get(v) == IF v = NoField THEN Null ELSE v

(***************************************************************************)
(* The file system.  A path holds nothing, a directory, a file that parses *)
(* as JSON (data is the document), or a file that does not (unreadable,    *)
(* malformed or truncated).                                                *)
(***************************************************************************)
Paths == 1..4
    \* 1 <base_dir>/.claude/.credentials.json   2 <base_dir>/.claude.json
    \* 3 <home>/.claude/.credentials.json       4 <home>/.claude.json

NoFile == [kind |-> "absent", data |-> EmptyDoc]
Directory == [kind |-> "dir", data |-> EmptyDoc]
Garbage == [kind |-> "garbage", data |-> EmptyDoc]
JsonFile(doc) == [kind |-> "json", data |-> doc]

\* path.exists() and path.is_file()
IsRegularFile(f) == f.kind \in {"json", "garbage"}

(***************************************************************************)
(* find_claude_config: the first search path that exists and is a file;    *)
(* 0 stands for None.                                                      *)
(***************************************************************************)
RECURSIVE SearchFrom(_, _)
SearchFrom(fs, i) ==
    IF i > 4 THEN 0
    ELSE IF IsRegularFile(fs[i]) THEN i
    ELSE SearchFrom(fs, i + 1)

\* the search without the path.is_file() test: a directory is taken too
find_claude_config_exists_only(fs) ==
    IF \E i \in Paths : fs[i].kind # "absent"
    THEN CHOOSE i \in Paths : fs[i].kind # "absent"
                              /\ \A j \in 1..(i - 1) : fs[j].kind = "absent"
    ELSE 0

find_claude_config(fs) == SearchFrom(fs, 1)

(***************************************************************************)
(* get_oauth_config: the first of the three keys that is in the document   *)
(* and whose section has a refreshToken key; "none" stands for None.       *)
(***************************************************************************)
RECURSIVE ProbeFrom(_, _)
ProbeFrom(doc, i) ==
    IF i > 3 THEN "none"
    ELSE IF doc[oauth_keys[i]].present
            /\ doc[oauth_keys[i]].refreshToken # NoField
         THEN oauth_keys[i]
    ELSE ProbeFrom(doc, i + 1)

get_oauth_config(is_loaded, doc) ==
    IF ~is_loaded \/ doc = EmptyDoc THEN "none" ELSE ProbeFrom(doc, 1)

(***************************************************************************)
(* is_token_expired, given the clock value it reads.                       *)
(***************************************************************************)
\* the comparison the wrong way round
is_token_expired_inverted(current_time, exp) == current_time < exp

is_token_expired(current_time, exp) == current_time > exp

\* the expiry read under a key the document does not use: always the default
ExpiresAtIgnored(section) == 0

\* oauth_config.get('expiresAt', 0)
ExpiresAtOrZero(section) ==
    IF section.expiresAt = <<>> THEN 0 ELSE section.expiresAt[1]

(***************************************************************************)
(* update_config, lines 179-201: the key it resolves and the merge.        *)
(***************************************************************************)
RECURSIVE FirstPresentFrom(_, _)
FirstPresentFrom(doc, i) ==
    IF i > 3 THEN "none"
    ELSE IF doc[oauth_keys[i]].present THEN oauth_keys[i]
    ELSE FirstPresentFrom(doc, i + 1)

\* the key update_config writes to: the first key in the document, whatever
\* its section holds; claudeAiOauth when there is none.
ResolveKey(doc) ==
    IF FirstPresentFrom(doc, 1) = "none" THEN oauth_keys[1]
    ELSE FirstPresentFrom(doc, 1)

\* expires_in added to the millisecond clock without the * 1000
NewExpiresAtSeconds(t, resp) ==
    t + (IF resp.expires_in = <<>> THEN DefaultExpiresIn ELSE resp.expires_in[1])

\* int(time.time() * 1000) + new_token_data.get('expires_in', 3600) * 1000
NewExpiresAt(t, resp) ==
    t + (IF resp.expires_in = <<>> THEN DefaultExpiresIn ELSE resp.expires_in[1])
        * MsPerSecond

\* new_token_data.get('refresh_token', oauth_config.get('refreshToken'))
NewRefreshToken(old, resp) ==
    IF resp.refresh_token # NoField THEN resp.refresh_token
    ELSE Get(old.refreshToken)

\* oauth_config.update({...}) on the section under the resolved key
MergedSection(old, resp, t) ==
    [present |-> TRUE,
     accessToken |-> resp.access_token,
     refreshToken |-> NewRefreshToken(old, resp),
     expiresAt |-> <<NewExpiresAt(t, resp)>>,
     organizationUuid |-> old.organizationUuid]

MergedDoc(doc, resp, t) ==
    LET key == ResolveKey(doc)
    IN [doc EXCEPT ![key] = MergedSection(doc[key], resp, t)]

\* lines 203-206: oauth_config['organizationUuid'] = ...['organization']['uuid']
WithOrganization(doc, resp) ==
    IF resp.organization = NoField THEN doc
    ELSE [doc EXCEPT ![ResolveKey(doc)].organizationUuid = resp.organization]

(***************************************************************************)
(* What the token endpoint can answer.  A token response is the parsed     *)
(* JSON body: kind "none" is Python None, "empty" is {}, "dict" an object  *)
(* with the keys below.  organization "<malformed>" is an organization     *)
(* object without the uuid key line 205 reads.                             *)
(***************************************************************************)
Malformed == "<malformed>"

TokenData(at, rt, ei, org) ==
    [kind |-> "dict", access_token |-> at, refresh_token |-> rt,
     expires_in |-> ei, organization |-> org]

NoTokenData ==
    [kind |-> "none", access_token |-> NoField, refresh_token |-> NoField,
     expires_in |-> <<>>, organization |-> NoField]

EmptyTokenData == [NoTokenData EXCEPT !.kind = "empty"]

TokenResponses ==
    {TokenData("A2", rt, ei, NoField) :
        rt \in {NoField, "R9"}, ei \in {<<>>, <<0>>, <<1>>}}
    \cup {TokenData(NoField, "R9", <<1>>, NoField),
          TokenData("A2", NoField, <<1>>, "O1"),
          TokenData("A2", NoField, <<1>>, Malformed),
          EmptyTokenData}

\* a JSON error object: none of the token keys
ErrorBody == TokenData(NoField, NoField, <<>>, NoField)

\* requests.post raises (transport_error), or returns a status and a body
\* that parses as JSON (data) or does not.
HttpResult(st, is_json, d) ==
    [transport_error |-> FALSE, status |-> st, json |-> is_json, data |-> d]

NoResponse ==
    [transport_error |-> FALSE, status |-> 0, json |-> FALSE, data |-> NoTokenData]

HttpOutcomes ==
    {[NoResponse EXCEPT !.transport_error = TRUE],
     HttpResult(HttpOk, FALSE, NoTokenData),
     HttpResult(401, FALSE, NoTokenData),
     HttpResult(401, TRUE, ErrorBody),
     HttpResult(201, TRUE, TokenData("A2", "R9", <<1>>, NoField))}
    \cup {HttpResult(HttpOk, TRUE, d) : d \in TokenResponses}

\* refresh_token() without the status test: any body that parses is returned
refresh_token_any_status(o) ==
    IF o.transport_error \/ ~o.json THEN NoTokenData ELSE o.data

\* refresh_token(): the parsed body on HTTP 200, None on any other status, on
\* a transport error and on a body response.json() cannot parse.
refresh_token(o) ==
    IF o.transport_error THEN NoTokenData
    ELSE IF o.status = HttpOk
         THEN (IF o.json THEN o.data ELSE NoTokenData)
    ELSE NoTokenData

\* open(path, 'w') then json.dump: completes, fails in open (nothing is
\* touched), or fails after open truncated the file.
WriteOutcomes == {"ok", "open_error", "io_error"}

WriteResult(old, doc, outcome) ==
    IF outcome = "ok" THEN JsonFile(doc)
    ELSE IF outcome = "io_error" THEN Garbage
    ELSE old

(***************************************************************************)
(* The documents and file layouts the behaviours start from.               *)
(***************************************************************************)
Section(at, rt, exp) ==
    [present |-> TRUE, accessToken |-> at, refreshToken |-> rt,
     expiresAt |-> exp, organizationUuid |-> NoField]

StoredToken(k) ==
    IF k = oauth_keys[1] THEN "R1" ELSE IF k = oauth_keys[2] THEN "R2" ELSE "R3"

ExpiresAtValues == {<<>>, <<0>>, <<-1>>, <<T0 - 1>>, <<T0>>, <<T0 + 1>>}

\* a key is absent, or holds a section without refreshToken, with an empty
\* one, or with a token and any of the expiry values
InitSections(k) ==
    {AbsentSection, Section("A0", NoField, <<>>)}
    \cup {Section("A0", "", exp) : exp \in {<<>>, <<T0 + 1>>}}
    \cup {Section("A0", StoredToken(k), exp) : exp \in ExpiresAtValues}

InitDocs ==
    {[k \in KeySet |-> IF k = oauth_keys[1] THEN a
                       ELSE IF k = oauth_keys[2] THEN b ELSE c] :
        a \in InitSections(oauth_keys[1]),
        b \in InitSections(oauth_keys[2]),
        c \in InitSections(oauth_keys[3])}

\* the document a layout puts at candidate path p: an expired token that
\* names the path
PathDoc(p) ==
    [EmptyDoc EXCEPT
        ![oauth_keys[1]] = Section("A0", <<"P1", "P2", "P3", "P4">>[p], <<T0 - 1>>)]

InitLayouts ==
    {[p \in Paths |-> IF k[p] = "json" THEN JsonFile(PathDoc(p))
                      ELSE [kind |-> k[p], data |-> EmptyDoc]] :
        k \in [Paths -> {"absent", "dir", "garbage", "json"}]}

NoPrev == [refreshed |-> FALSE, expires_in_positive |-> FALSE, expires_at |-> 0,
           key |-> "none"]

\* the state of a fresh process: __init__ and the locals of run()
FreshRun ==
    /\ pc = "load"
    /\ config_file = 0
    /\ config_data = EmptyDoc
    /\ loaded = FALSE
    /\ oauth_key = "none"
    /\ updated_key = "none"
    /\ expires_at = 0
    /\ is_expired = FALSE
    /\ checked_at = 0
    /\ sent_token = Null
    /\ response = NoResponse
    /\ new_token_data = NoTokenData
    /\ result = "running"
    /\ http_calls = 0
    /\ writes = <<>>

InitCommon ==
    /\ backups = [p \in Paths |-> NoFile]
    /\ now = T0
    /\ force \in BOOLEAN
    /\ FreshRun
    /\ files0 = files
    /\ backups0 = backups
    /\ run_no = 1
    /\ prev = NoPrev

\* one invocation: every layout of the four paths, or every document at the
\* first or the third path
Init ==
    /\ \/ files \in InitLayouts
       \/ \E q \in {1, 3}, doc \in InitDocs :
            files = [p \in Paths |-> IF p = q THEN JsonFile(doc) ELSE NoFile]
    /\ InitCommon

(***************************************************************************)
(* run(), one action per step.  Done(r) is a return from run().            *)
(***************************************************************************)
Done(r) ==
    /\ pc' = "done"
    /\ result' = IF r THEN "true" ELSE "false"

\* load_config (lines 65-88), called at line 242
LoadConfig ==
    /\ pc = "load"
    /\ config_file' = find_claude_config(files)
    /\ IF config_file' = 0
       THEN /\ Done(FALSE)
            /\ UNCHANGED <<config_data, loaded>>
       ELSE IF files[config_file'].kind = "json"
       THEN /\ config_data' = files[config_file'].data
            /\ loaded' = TRUE
            /\ pc' = "extract"
            /\ UNCHANGED result
       ELSE /\ Done(FALSE)
            /\ UNCHANGED <<config_data, loaded>>
    /\ UNCHANGED <<files, backups, now, force, oauth_key, updated_key,
                   expires_at, is_expired, checked_at, sent_token,
                   response, new_token_data, http_calls, writes, files0, backups0,
                   run_no, prev>>

\* lines 245-249
GetOAuthConfig ==
    /\ pc = "extract"
    /\ oauth_key' = get_oauth_config(loaded, config_data)
    /\ IF oauth_key' = "none"
       THEN Done(FALSE)
       ELSE pc' = "check" /\ UNCHANGED result
    /\ UNCHANGED <<files, backups, now, force, config_file, config_data, loaded,
                   updated_key, expires_at, is_expired, checked_at, sent_token,
                   response, new_token_data, http_calls, writes, files0, backups0,
                   run_no, prev>>

\* lines 251-269: the expiry check, the early return and the refresh token
CheckExpiry ==
    /\ pc = "check"
    /\ LET oauth_config == config_data[oauth_key]
           exp == ExpiresAtOrZero(oauth_config)
           expired == IF exp > 0 THEN is_token_expired(now, exp) ELSE TRUE
           token == Get(oauth_config.refreshToken)
       IN /\ expires_at' = exp
          /\ is_expired' = expired
          /\ checked_at' = now
          /\ IF ~expired /\ ~force
             THEN Done(TRUE) /\ UNCHANGED sent_token
             ELSE IF ~Truthy(token)
             THEN Done(FALSE) /\ UNCHANGED sent_token
             ELSE /\ sent_token' = token
                  /\ pc' = "refresh"
                  /\ UNCHANGED result
    /\ UNCHANGED <<files, backups, now, force, config_file, config_data, loaded,
                   oauth_key, updated_key, response, new_token_data, http_calls, writes,
                   files0, backups0, run_no, prev>>

\* refresh_token (lines 124-166) and lines 271-273; the call takes time
RefreshToken ==
    /\ pc = "refresh"
    /\ \E o \in HttpOutcomes, d \in 0..MaxTick :
        /\ http_calls' = http_calls + 1
        /\ now' = now + d
        /\ response' = o
        /\ new_token_data' = refresh_token(o)
        /\ IF new_token_data'.kind # "dict"
           THEN Done(FALSE)
           ELSE pc' = "update" /\ UNCHANGED result
    /\ UNCHANGED <<files, backups, force, config_file, config_data, loaded,
                   oauth_key, updated_key, expires_at, is_expired, checked_at,
                   sent_token, writes, files0, backups0, run_no, prev>>

\* update_config, lines 178-210: the in-memory merge.  A response without
\* access_token raises KeyError before the section is touched, a malformed
\* organization after.
UpdateConfig ==
    /\ pc = "update"
    /\ updated_key' = ResolveKey(config_data)
    /\ IF new_token_data.access_token = NoField
       THEN Done(FALSE) /\ UNCHANGED config_data
       ELSE IF new_token_data.organization = Malformed
       THEN /\ config_data' = MergedDoc(config_data, new_token_data, now)
            /\ Done(FALSE)
       ELSE /\ config_data' = WithOrganization(
                    MergedDoc(config_data, new_token_data, now), new_token_data)
            /\ pc' = "backup"
            /\ UNCHANGED result
    /\ UNCHANGED <<files, backups, now, force, config_file, loaded, oauth_key,
                   expires_at, is_expired, checked_at, sent_token,
                   response, new_token_data, http_calls, writes, files0, backups0,
                   run_no, prev>>

\* what update_config serializes into the backup file (line 215)
BackupContent == config_data

\* the backup write with its exception swallowed: the primary write follows
WriteBackupIgnoringFailure ==
    /\ pc = "backup"
    /\ \E outcome \in WriteOutcomes :
        /\ writes' = Append(writes, [file |-> "backup", outcome |-> outcome])
        /\ backups' = [backups EXCEPT ![config_file] =
                          WriteResult(@, BackupContent, outcome)]
        /\ pc' = "primary"
    /\ UNCHANGED <<files, now, force, config_file, config_data, loaded,
                   oauth_key, updated_key, expires_at, is_expired, checked_at,
                   sent_token, response, new_token_data, result, http_calls,
                   files0, backups0, run_no, prev>>

\* update_config, lines 212-216 (and 224-226 when the write raises)
WriteBackup ==
    /\ pc = "backup"
    /\ \E outcome \in WriteOutcomes :
        /\ writes' = Append(writes, [file |-> "backup", outcome |-> outcome])
        /\ backups' = [backups EXCEPT ![config_file] =
                          WriteResult(@, BackupContent, outcome)]
        /\ IF outcome = "ok"
           THEN pc' = "primary" /\ UNCHANGED result
           ELSE Done(FALSE)
    /\ UNCHANGED <<files, now, force, config_file, config_data, loaded,
                   oauth_key, updated_key, expires_at, is_expired, checked_at,
                   sent_token, response, new_token_data, http_calls, files0, backups0,
                   run_no, prev>>

\* the primary write tried again after a failure
WritePrimaryRetrying ==
    /\ pc = "primary"
    /\ \E outcome \in WriteOutcomes :
        /\ writes' = Append(writes, [file |-> "primary", outcome |-> outcome])
        /\ files' = [files EXCEPT ![config_file] =
                        WriteResult(@, config_data, outcome)]
        /\ IF outcome = "ok" THEN Done(TRUE) ELSE UNCHANGED <<pc, result>>
    /\ UNCHANGED <<backups, now, force, config_file, config_data, loaded,
                   oauth_key, updated_key, expires_at, is_expired, checked_at,
                   sent_token, response, new_token_data, http_calls, files0,
                   backups0, run_no, prev>>

\* update_config, lines 218-222 (and 224-226), then lines 276-283 of run()
WritePrimary ==
    /\ pc = "primary"
    /\ \E outcome \in WriteOutcomes :
        /\ writes' = Append(writes, [file |-> "primary", outcome |-> outcome])
        /\ files' = [files EXCEPT ![config_file] =
                        WriteResult(@, config_data, outcome)]
        /\ Done(outcome = "ok")
    /\ UNCHANGED <<backups, now, force, config_file, config_data, loaded,
                   oauth_key, updated_key, expires_at, is_expired, checked_at,
                   sent_token, response, new_token_data, http_calls, files0, backups0,
                   run_no, prev>>

RunNext ==
    \/ LoadConfig
    \/ GetOAuthConfig
    \/ CheckExpiry
    \/ RefreshToken
    \/ UpdateConfig
    \/ WriteBackup
    \/ WritePrimary

Spec == Init /\ [][RunNext]_vars

(***************************************************************************)
(* The tool run again (main, lines 285-321, from cron or by hand) on the   *)
(* files the invocation before it left.                                    *)
(***************************************************************************)
\* the next invocation starts just before or just after a one-second token
\* of the invocation before it expires
RunGaps == {MsPerSecond - 1, MsPerSecond + 1}

StartRun ==
    /\ pc = "done"
    /\ run_no < MaxRuns
    /\ run_no' = run_no + 1
    /\ prev' = [refreshed |-> result = "true" /\ Len(writes) = 2,
                expires_in_positive |->
                    \/ new_token_data.expires_in = <<>>
                    \/ /\ new_token_data.expires_in # <<>>
                       /\ new_token_data.expires_in[1] > 0,
                expires_at |->
                    now + (IF new_token_data.expires_in = <<>>
                           THEN DefaultExpiresIn
                           ELSE new_token_data.expires_in[1]) * MsPerSecond,
                key |-> updated_key]
    /\ \E f \in BOOLEAN, gap \in RunGaps :
        /\ force' = f
        /\ now' = now + gap
    /\ pc' = "load"
    /\ config_file' = 0
    /\ config_data' = EmptyDoc
    /\ loaded' = FALSE
    /\ oauth_key' = "none"
    /\ updated_key' = "none"
    /\ expires_at' = 0
    /\ is_expired' = FALSE
    /\ checked_at' = 0
    /\ sent_token' = Null
    /\ response' = NoResponse
    /\ new_token_data' = NoTokenData
    /\ result' = "running"
    /\ http_calls' = 0
    /\ writes' = <<>>
    /\ files0' = files
    /\ backups0' = backups
    /\ UNCHANGED <<files, backups>>

Next == RunNext \/ StartRun

\* an expired token under the first key, and an expired token under the
\* second key behind a first key that has none
RerunDocs ==
    {[EmptyDoc EXCEPT ![oauth_keys[1]] = Section("A0", "R1", <<T0 - 1>>)],
     [EmptyDoc EXCEPT ![oauth_keys[1]] = Section("A0", NoField, <<>>),
                      ![oauth_keys[2]] = Section("A0", "R2", <<T0 - 1>>)]}

InitRerun ==
    /\ \E doc \in RerunDocs :
            files = [p \in Paths |-> IF p = 2 THEN JsonFile(doc) ELSE NoFile]
    /\ InitCommon

SpecRerun == InitRerun /\ [][Next]_vars

(***************************************************************************)
(* Vocabulary of the properties.                                           *)
(***************************************************************************)
\* the section get_oauth_config returned, as it was on disk when the
\* invocation started
StoredSection == files0[config_file].data[oauth_key]

\* lines 251-263 have run on an extracted section
Checked == oauth_key # "none" /\ checked_at # 0

NothingDone ==
    /\ http_calls = 0
    /\ writes = <<>>
    /\ files = files0
    /\ backups = backups0

BackupDone == [file |-> "backup", outcome |-> "ok"]
PrimaryDone == [file |-> "primary", outcome |-> "ok"]

C2_Claimed ==
    (/\ pc = "done"
     /\ Checked
     /\ \/ StoredSection.expiresAt = <<>>
        \/ StoredSection.expiresAt[1] <= checked_at)
    => http_calls = 1

\* C2 amended: an extracted section whose expiresAt is strictly less than the
\* clock, or absent or zero, and whose refreshToken is a non-empty string,
\* makes the run attempt exactly one HTTP call, whatever --force.
C2_ExpiredTokenOneCall ==
    /\ http_calls <= 1
    /\ (/\ Checked
        /\ Truthy(StoredSection.refreshToken)
        /\ \/ StoredSection.expiresAt = <<>>
           \/ StoredSection.expiresAt[1] = 0
           \/ StoredSection.expiresAt[1] < checked_at)
       => (IF pc = "refresh" THEN http_calls = 0 ELSE http_calls = 1)

C2_Witness ==
    /\ pc = "done"
    /\ Checked
    /\ ~force
    /\ StoredSection.expiresAt = <<T0 - 1>>
    /\ http_calls = 1

\* C3: once the backup file is written, it holds the document that was on
\* disk before the run.
C3_BackupHoldsOriginal ==
    (Len(writes) >= 1 /\ writes[1] = BackupDone)
    => backups[config_file] = files0[config_file]

\* C4: a failed backup write ends update_config: the run returns False, the
\* primary file is not opened and holds what it held, and the document in
\* memory keeps the merge.
C4_BackupFailureSparesPrimary ==
    (Len(writes) >= 1 /\ writes[1].file = "backup" /\ writes[1].outcome # "ok")
    => /\ pc = "done"
       /\ result = "false"
       /\ Len(writes) = 1
       /\ files = files0
       /\ config_data # files[config_file].data
       /\ config_data[updated_key].accessToken = new_token_data.access_token

C4_Witness ==
    /\ pc = "done"
    /\ writes = <<[file |-> "backup", outcome |-> "io_error"]>>
    /\ backups[config_file] = Garbage
    /\ files = files0

\* C5: a non-200 status or a transport error ends the run in failure after
\* that one call, with the primary file as it was and no backup written.
C5_HttpFailureIsFatal ==
    (/\ http_calls >= 1
     /\ response.transport_error \/ response.status # HttpOk)
    => /\ pc = "done"
       /\ result = "false"
       /\ http_calls = 1
       /\ writes = <<>>
       /\ files = files0
       /\ backups = backups0

C5_Witness ==
    /\ pc = "done"
    /\ http_calls = 1
    /\ response.status = 201
    /\ response.data.access_token = "A2"
    /\ result = "false"

\* C6: the refreshToken persisted by update_config is the response's when it
\* carries one, and otherwise the token that was extracted and sent.
C6_RefreshTokenKept ==
    (pc = "done" /\ result = "true" /\ writes = <<BackupDone, PrimaryDone>>)
    => files[config_file].data[updated_key].refreshToken =
          (IF new_token_data.refresh_token # NoField
           THEN new_token_data.refresh_token ELSE sent_token)

\* C7: at most two file writes per run, the primary only after a completed
\* backup, none unless the one HTTP call returned 200 with a token response,
\* and on success exactly the backup and then the primary.
C7_WriteDiscipline ==
    /\ Len(writes) <= 2
    /\ \A i \in 1..Len(writes) :
          writes[i].file = "primary" => i = 2 /\ writes[1] = BackupDone
    /\ writes # <<>> =>
          /\ http_calls = 1
          /\ ~response.transport_error
          /\ response.status = HttpOk
          /\ response.json
          /\ response.data.access_token # NoField
    /\ (pc = "done" /\ result = "true" /\ http_calls > 0) =>
          writes = <<BackupDone, PrimaryDone>>

C7_Witness ==
    /\ pc = "done"
    /\ result = "true"
    /\ writes = <<BackupDone, PrimaryDone>>

\* C8: find_claude_config returns the lowest-numbered candidate that is a
\* regular file, and None when there is none; the run then fails without an
\* HTTP call or a file write.
C8_FirstRegularFile ==
    pc # "load" =>
       \/ /\ config_file = 0
          /\ \A p \in Paths : files0[p].kind \in {"absent", "dir"}
          /\ pc = "done"
          /\ result = "false"
          /\ NothingDone
       \/ /\ config_file \in Paths
          /\ files0[config_file].kind \in {"json", "garbage"}
          /\ \A p \in 1..(config_file - 1) : files0[p].kind \in {"absent", "dir"}

C8_Witness ==
    /\ pc = "done"
    /\ config_file = 3
    /\ files0[1].kind = "dir"
    /\ files0[2].kind = "absent"
    /\ files0[4].kind = "json"
    /\ files[3].data # files0[3].data

\* C9: update_config mutates the section get_oauth_config returned, and
\* leaves the sections under the other keys as they were.
C9_SameSection ==
    updated_key # "none" =>
       /\ updated_key = oauth_key
       /\ \A k \in KeySet \ {oauth_key} :
             config_data[k] = files0[config_file].data[k]

\* C10: after a run that refreshed with a positive or defaulted expires_in, a
\* run without --force that starts before the new expiresAt extracts the
\* section just written, finds it unexpired, and returns True with no HTTP
\* call and no file write, the two files left as they were.
C10_SecondRunIsNoOp ==
    (/\ run_no > 1
     /\ prev.refreshed
     /\ prev.expires_in_positive
     /\ ~force
     /\ Checked
     /\ checked_at < prev.expires_at)
    => /\ oauth_key = prev.key
       /\ StoredSection.expiresAt = <<prev.expires_at>>
       /\ ~is_expired
       /\ pc = "done"
       /\ result = "true"
       /\ NothingDone

C10_Witness ==
    /\ run_no = 2
    /\ prev.refreshed
    /\ prev.expires_in_positive
    /\ prev.expires_at = checked_at + 1
    /\ ~force
    /\ pc = "done"
    /\ result = "true"
    /\ StoredSection.refreshToken = Null

====
